---- MODULE Spec2Model ----
(***************************************************************************)
(* Model of pygeneses:                                                     *)
(*   models/reinforce/reinforce_nn.py  Agent (forward, act)                *)
(*   vitaboard/app.py                  Flask handlers index, groups, stats *)
(*                                                                         *)
(* Numbers.  Probabilities are exact fractions <<num, den>>.  The softmax  *)
(* is taken in base 2 over integer logits (a logit is counted in units of  *)
(* ln 2), with the two float32 effects the code can observe kept:          *)
(*   - exp underflow: a weight below 2^-ExpUnderflow is 0 (float32         *)
(*     underflows at 2^-149; the model's threshold is nearer so that the   *)
(*     sums stay within TLC's integers);                                   *)
(*   - torch.distributions clamps probabilities to [eps, 1 - eps] before   *)
(*     taking their log, eps = 2^-EpsExp (float32: 2^-23).                 *)
(* The natural log is injective, so ln(p) is represented by the tagged     *)
(* reduced fraction <<"ln", p>>; ln(0) is <<"ln", <<0, 1>>>> (-inf).       *)
(* Action indices are 0-based as in the code; lists are TLA+ sequences, so *)
(* position j of a Python list is element j + 1 here.                      *)
(***************************************************************************)
EXTENDS Integers, Sequences, FiniteSets, TLC

VARIABLES
    a_size,     \* Agent.__init__: number of actions
    fc1,        \* Agent.fc1: [W |-> rows, b |-> bias]
    fc2,        \* Agent.fc2
    tieRank,    \* the order torch.topk of this build leaves equal values in
    call,       \* the arguments of the act call that last ran, and its probs
    result,     \* what that call returned or raised
    saved,      \* history: the first deterministic top-k call and its result
    params0,    \* history: the parameters at construction
    fs,         \* vitaboard: pass_params.txt and visualizer.py in the working directory
    req,        \* vitaboard: the request being handled, or the last one handled
    pc,         \* vitaboard: position of the handler of req
    resp,       \* vitaboard: the response to req, once made
    ran         \* vitaboard: history of req: file operations, and what the visualizer read

agentVars == <<a_size, fc1, fc2, tieRank, call, result, saved, params0>>
webVars == <<fs, req, pc, resp, ran>>
vars == <<agentVars, webVars>>

None == [kind |-> "none"]

----------------------------------------------------------------------------
(* Bounds and program constants *)

RebelK == 13
SmallASize == 4
MaxASize == 14
SSize == 1
HSize == 1
NegTopK == 1
ExpUnderflow == 25
EpsExp == 23
MaxLater == 2
MaxFiles == 3

ASizes == {SmallASize, RebelK - 1, RebelK, MaxASize}
TopKs == (0 - NegTopK)..(MaxASize + 1)
StateVals == {0, 1, 2}

States == {[i \in 1..SSize |-> v] : v \in StateVals}

----------------------------------------------------------------------------
(* Arithmetic *)

RECURSIVE Pow2(_)
Pow2(n) == IF n = 0 THEN 1 ELSE 2 * Pow2(n - 1)

RECURSIVE Gcd(_, _)
Gcd(a, b) == IF b = 0 THEN a ELSE Gcd(b, a % b)

Reduce(p) == LET g == Gcd(p[1], p[2]) IN <<p[1] \div g, p[2] \div g>>

Less(p, q) == IF p[2] = q[2] THEN p[1] < q[1] ELSE p[1] * q[2] < q[1] * p[2]

Eq(p, q) == IF p[2] = q[2] THEN p[1] = q[1] ELSE p[1] * q[2] = q[1] * p[2]

Div(p, q) == LET r == Reduce(q) IN Reduce(<<p[1] * r[2], p[2] * r[1]>>)

RECURSIVE SumTo(_, _)
SumTo(f, n) == IF n = 0 THEN 0 ELSE f[n] + SumTo(f, n - 1)

Dot(u, v) == SumTo([i \in 1..Len(u) |-> u[i] * v[i]], Len(u))

MaxOf(S) == CHOOSE m \in S : \A x \in S : x <= m

\* torch.log
Ln(p) == <<"ln", Reduce(p)>>

----------------------------------------------------------------------------
(* Agent.forward *)

\* the sequence f[1], ..., f[n], each element computed once
RECURSIVE Eval(_, _)
Eval(f, n) == IF n = 0 THEN <<>> ELSE Append(Eval(f, n - 1), f[n])

\* the sequence t indexed from 0, as a row of a tensor is
RECURSIVE ZeroBased(_, _)
ZeroBased(t, n) ==
    IF n = 1 THEN 0 :> t[1] ELSE ZeroBased(t, n - 1) @@ ((n - 1) :> t[n])

\* nn.Linear: W x + b
Linear(layer, x) ==
    Eval([j \in 1..Len(layer.W) |-> Dot(layer.W[j], x) + layer.b[j]],
         Len(layer.W))

Relu(h) == Eval([j \in 1..Len(h) |-> IF h[j] > 0 THEN h[j] ELSE 0], Len(h))

\* exp(x - max), 0 below the underflow threshold
ExpShifted(logits, m) ==
    Eval([r \in 1..Len(logits) |->
            IF m - logits[r] > ExpUnderflow THEN 0
            ELSE Pow2(ExpUnderflow - (m - logits[r]))],
         Len(logits))

\* w / sum(w), indexed by action 0..n-1
Normalised(w, den) ==
    ZeroBased(Eval([r \in 1..Len(w) |-> <<w[r], den>>], Len(w)), Len(w))

SoftmaxOf(w) == Normalised(w, SumTo(w, Len(w)))

\* F.softmax(x, dim=1)
Softmax(logits) ==
    SoftmaxOf(ExpShifted(logits, MaxOf({logits[r] : r \in 1..Len(logits)})))

ForwardOf(h) == [probs |-> Softmax(Linear(fc2, Relu(h))), embed |-> h]

\* forward(x): the distribution, and the first layer's output before the relu
Forward(x) == ForwardOf(Linear(fc1, x))

----------------------------------------------------------------------------
(* torch.topk, Categorical *)

\* i is ranked before j: larger value first; among equal values the order of
\* the build (the library leaves it unspecified)
Before(probs, i, j) ==
    \/ Less(probs[j], probs[i])
    \/ Eq(probs[i], probs[j]) /\ tieRank[i] < tieRank[j]

InsertAt(q, i, pos) == SubSeq(q, 1, pos) \o <<i>> \o SubSeq(q, pos + 1, Len(q))

\* the actions 0..n-1 in that order
RECURSIVE Sorted(_, _)
Sorted(probs, n) ==
    IF n = 0 THEN <<>>
    ELSE LET q == Sorted(probs, n - 1)
         IN  InsertAt(q, n - 1,
                      Cardinality({j \in 1..Len(q) : Before(probs, q[j], n - 1)}))

\* the first k of them
Ranked(probs, k) == SubSeq(Sorted(probs, Cardinality(DOMAIN probs)), 1, k)

TopKOf(probs, idx) ==
    [kind |-> "ok",
     values |-> Eval([j \in 1..Len(idx) |-> probs[idx[j]]], Len(idx)),
     indices |-> idx]

\* mutant: k silently cut to the number of actions instead of raising
TopKClamped(probs, k) ==
    LET n == Cardinality(DOMAIN probs)
    IN  TopKOf(probs, Ranked(probs, IF k > n THEN n ELSE k))

\* mutant: indices counted from 1
TopKOneBased(probs, k) ==
    LET n == Cardinality(DOMAIN probs)
        t == TopKOf(probs, Ranked(probs, k))
    IN  IF k < 0 \/ k > n THEN [kind |-> "raise", error |-> "RuntimeError"]
        ELSE [t EXCEPT !.indices = Eval([j \in 1..k |-> @[j] + 1], k)]

\* torch.topk(probs, k): values and indices, largest first; k out of range raises
TopK(probs, k) ==
    LET n == Cardinality(DOMAIN probs)
    IN  IF k < 0 \/ k > n THEN [kind |-> "raise", error |-> "RuntimeError"]
        ELSE TopKOf(probs, Ranked(probs, k))

\* Categorical(probs): probs / probs.sum(-1)
DivideAll(probs, total, n) ==
    ZeroBased(Eval([r \in 1..n |-> Div(probs[r - 1], total)], n), n)

CategoricalProbs(probs) ==
    LET n == Cardinality(DOMAIN probs)
    IN  DivideAll(probs, <<SumTo([r \in 1..n |-> probs[r - 1][1]], n), probs[0][2]>>, n)

\* mutant: a draw that ignores the probabilities
SampleAny(m) == DOMAIN m

\* m.sample(): an index of nonzero probability
Sample(m) == {i \in DOMAIN m : m[i][1] > 0}

\* clamp_probs: probs.clamp(min=eps, max=1 - eps)
ClampProbs(p) ==
    LET e == Pow2(EpsExp)
        below == (p[2] - 1) \div e    \* n / d < 1 / e  iff  n <= (d - 1) div e
    IN  IF p[1] <= below THEN <<1, e>>
        ELSE IF p[2] - p[1] <= below THEN <<e - 1, e>>
        ELSE p

\* m.log_prob(action): log of the clamped normalised probability
LogProb(m, action) == Ln(ClampProbs(m[action]))

----------------------------------------------------------------------------
(* Agent.act *)

\* mutant: the rebel return designating the first of the ranking
RebelReturnFirst(t, embed) ==
    [kind |-> "ok", action |-> t.indices,
     chosen |-> t.indices[1],
     log_probs |-> Eval([j \in 1..Len(t.values) |-> Ln(t.values[j])], Len(t.values)),
     embed |-> embed]

\* line 100: the rebel return
RebelReturn(t, embed) ==
    [kind |-> "ok", action |-> t.indices,
     chosen |-> t.indices[Len(t.indices)],
     log_probs |-> Eval([j \in 1..Len(t.values) |-> Ln(t.values[j])], Len(t.values)),
     embed |-> embed]

\* mutant: the top-k return designating the last of the ranking
TopKReturnLast(t, embed) ==
    [kind |-> "ok", action |-> t.indices,
     chosen |-> t.indices[Len(t.indices)],
     log_probs |-> Eval([j \in 1..Len(t.values) |-> Ln(t.values[j])], Len(t.values)),
     embed |-> embed]

\* line 104: the top-k return
TopKReturn(t, embed) ==
    [kind |-> "ok", action |-> t.indices,
     chosen |-> t.indices[1],
     log_probs |-> Eval([j \in 1..Len(t.values) |-> Ln(t.values[j])], Len(t.values)),
     embed |-> embed]

\* line 108: the sampled return
SampleReturn(m, action, embed) ==
    [kind |-> "ok", action |-> <<action>>, chosen |-> action,
     log_probs |-> <<LogProb(m, action)>>, embed |-> embed]

\* an exception of torch.topk leaves act; otherwise act returns
OrRaise(t, ret) == IF t.kind = "raise" THEN t ELSE ret

\* act(state, topk, is_rebel) after line 94, f the result of forward and draw
\* the value m.sample() returns
ActResult(f, topk, is_rebel, draw) ==
    LET probs == f.probs
        embed == f.embed
    IN  IF is_rebel THEN
            OrRaise(TopK(probs, RebelK), RebelReturn(TopK(probs, RebelK), embed))
        ELSE IF topk > 1 THEN
            OrRaise(TopK(probs, topk), TopKReturn(TopK(probs, topk), embed))
        ELSE SampleReturn(CategoricalProbs(probs), draw, embed)

\* the values m.sample() can return in this call (one value where no draw is made)
Draws(probs, topk, is_rebel) ==
    IF is_rebel \/ topk > 1 THEN {0}
    ELSE Sample(CategoricalProbs(probs))

IsDet(c) == c.kind = "act" /\ ~c.is_rebel /\ c.topk > 1

\* mutant: act takes a training step on the first layer's bias
ActFrameTrain ==
    /\ fc1' = [fc1 EXCEPT !.b = [j \in DOMAIN fc1.b |-> fc1.b[j] + 1]]
    /\ UNCHANGED <<a_size, fc2, tieRank>>

\* act assigns to no attribute of the agent
ActFrame == UNCHANGED <<a_size, fc1, fc2, tieRank>>

\* lines 93-94, then the selection
ActCall(x, f) ==
    \E topk \in TopKs, is_rebel \in BOOLEAN :
        \E draw \in Draws(f.probs, topk, is_rebel) :
            /\ call' = [kind |-> "act", state |-> x, topk |-> topk,
                        is_rebel |-> is_rebel, probs |-> f.probs]
            /\ result' = ActResult(f, topk, is_rebel, draw)

ActStep ==
    /\ result = None
    /\ \E x \in States : ActCall(x, Forward(x))
    /\ ActFrame
    /\ UNCHANGED params0
    /\ UNCHANGED webVars

Act ==
    /\ ActStep
    /\ UNCHANGED saved

\* the same call, with the first deterministic top-k call kept for comparison
ActTracked ==
    /\ ActStep
    /\ saved' = IF saved = None
                THEN IF IsDet(call')
                     THEN [kind |-> "saved",
                           call |-> [state |-> call'.state, topk |-> call'.topk,
                                     is_rebel |-> call'.is_rebel],
                           result |-> result', later |-> 0]
                     ELSE saved
                ELSE [saved EXCEPT !.later = IF @ < MaxLater THEN @ + 1 ELSE @]

\* the caller drops the decision record (it has no identity beyond the call)
Discard ==
    /\ result # None
    /\ result' = None
    /\ call' = None
    /\ UNCHANGED <<a_size, fc1, fc2, tieRank, saved, params0>>
    /\ UNCHANGED webVars

----------------------------------------------------------------------------
(* vitaboard/app.py: the requests *)

\* file locations posted to /, as sequences of characters
NpyFile == <<"a", ".", "n", "p", "y">>
NpyMissing == <<"b", ".", "n", "p", "y">>
NpyBackup == <<"a", ".", "n", "p", "y", ".", "b", "a", "k">>
LogDir == <<"l", "o", "g", "s">>
NpFile == <<"a", ".", "n", "p">>
Missing == <<"n", "o">>
NpyInDir == <<"d", "/", "a", ".", "n", "p", "y">>
NpyNamedDir == <<"r", ".", "n", "p", "y", "/">>

FileLocations ==
    {NpyFile, NpyMissing, NpyBackup, LogDir, NpFile, Missing, NpyInDir, NpyNamedDir}
Existing == {NpyFile, NpyBackup, LogDir, NpFile, NpyInDir, NpyNamedDir}
Speeds == {"1", "5", "10"}

\* locations posted to /groups and /stats, each given by what is there: whether
\* the path exists, whether it has an Embeddings sub-directory, and how many
\* embedding files and log files it holds
DirLocations ==
    {d \in [exists : BOOLEAN, embdir : BOOLEAN,
            embeddings : 0..MaxFiles, logs : 0..MaxFiles] :
        /\ ~d.exists => (~d.embdir /\ d.logs = 0)
        /\ ~d.embdir => d.embeddings = 0}

\* a file of the working directory, by its lines; None where there is none
File(lines) == [kind |-> "file", lines |-> lines]

NoFiles == [params |-> None, visualizer |-> None]
NoRun == [log |-> <<>>, saw |-> None]

\* os.path.exists(file_location)
PathExists(file_location) == file_location \in Existing

\* os.path.exists(location)
DirExists(location) == location.exists

\* sub in s, for strings
Contains(sub, s) ==
    \E i \in 0..(Len(s) - Len(sub)) : SubSeq(s, i + 1, i + Len(sub)) = sub

DotNpy == <<".", "n", "p", "y">>

\* pkgutil.get_data(__name__, "visualizer.py").decode()
VisualizerContents == "visualizer.py of the package"

\* Python values that the code compares across types carry their type: py is
\* "int" or "list"

\* jsonify(...)
Json(title, text, icon) ==
    [kind |-> "json", title |-> title, text |-> text, icon |-> icon]

\* graph_gen.tsne: -1 when the location holds no embeddings, else one
\* coordinate pair for each
Tsne(location) ==
    IF location.embeddings = 0 THEN [py |-> "int", v |-> 0 - 1]
    ELSE [py |-> "list", v |-> [i \in 1..location.embeddings |-> <<"x", "y">>]]

\* graph_gen.get_life_stats: (-1, -1, -1) when the location holds no log
\* files, else mean, variance and quality of fit over them
GetLifeStats(location) ==
    IF location.logs = 0 THEN <<0 - 1, 0 - 1, 0 - 1>>
    ELSE <<location.logs, 0, 1>>

\* coord == -1: a list is not equal to a number
IsMinusOne(c) == c.py = "int" /\ c.v = 0 - 1

----------------------------------------------------------------------------
(* index *)

\* GET /
IndexGet ==
    /\ pc = "idle"
    /\ req' = [route |-> "/", method |-> "GET"]
    /\ resp' = [kind |-> "html", template |-> "index.html"]
    /\ ran' = NoRun
    /\ UNCHANGED <<fs, pc>>
    /\ UNCHANGED agentVars

\* lines 23-29: the two checks of POST /
IndexChecks(file_location) ==
    IF ~PathExists(file_location)
    THEN Json("Error", <<"The location ", file_location, " does not exist">>, "error")
    ELSE IF ~Contains(DotNpy, file_location)
    THEN Json("Error", <<"You need to pass a npy file">>, "error")
    ELSE None

\* POST /: lines 20-29
IndexPost ==
    /\ pc = "idle"
    /\ \E file_location \in FileLocations, speed \in Speeds :
         /\ req' = [route |-> "/", method |-> "POST",
                    file_location |-> file_location, speed |-> speed]
         /\ resp' = IndexChecks(file_location)
         /\ pc' = IF IndexChecks(file_location) = None THEN "write_params" ELSE "idle"
    /\ ran' = NoRun
    /\ UNCHANGED fs
    /\ UNCHANGED agentVars

\* lines 31-33
IndexWriteParams ==
    /\ pc = "write_params"
    /\ fs' = [fs EXCEPT !.params = File(<<req.file_location, req.speed>>)]
    /\ ran' = [ran EXCEPT !.log = Append(@, "write pass_params.txt")]
    /\ pc' = "write_visualizer"
    /\ UNCHANGED <<req, resp>>
    /\ UNCHANGED agentVars

\* lines 35-37
IndexWriteVisualizer ==
    /\ pc = "write_visualizer"
    /\ fs' = [fs EXCEPT !.visualizer = File(<<VisualizerContents>>)]
    /\ ran' = [ran EXCEPT !.log = Append(@, "write visualizer.py")]
    /\ pc' = "run"
    /\ UNCHANGED <<req, resp>>
    /\ UNCHANGED agentVars

\* python visualizer.py: reads pass_params.txt, changes no file
RunVisualizer == [script |-> fs.visualizer, params |-> fs.params]

\* line 39
IndexRun ==
    /\ pc = "run"
    /\ ran' = [log |-> Append(ran.log, "run"), saw |-> RunVisualizer]
    /\ pc' = "remove"
    /\ UNCHANGED <<fs, req, resp>>
    /\ UNCHANGED agentVars

\* mutant: visualizer.py left behind
IndexRemoveParamsOnly == [fs EXCEPT !.params = None]

\* lines 41-42
IndexRemoveFiles == [fs EXCEPT !.params = None, !.visualizer = None]

\* lines 41-45
IndexRemove ==
    /\ pc = "remove"
    /\ fs' = IndexRemoveFiles
    /\ ran' = [ran EXCEPT !.log =
                    @ \o <<"remove pass_params.txt", "remove visualizer.py">>]
    /\ resp' = Json("Success", <<"Visualizer ran successfully">>, "success")
    /\ pc' = "idle"
    /\ UNCHANGED req
    /\ UNCHANGED agentVars

----------------------------------------------------------------------------
(* groups, stats *)

\* mutant: the -1 of tsne not checked
GroupsResponseUnchecked(location) ==
    IF ~DirExists(location)
    THEN Json("Error", <<"The location ", location, " does not exist">>, "error")
    ELSE IF ~location.embdir
    THEN Json("Error", <<"The location ", location, " does not have any embeddings">>,
              "error")
    ELSE Json("Success", <<"Groups generated successfully">>, "success")
            @@ [coord |-> Tsne(location)]

\* lines 51-68
GroupsResponse(location) ==
    IF ~DirExists(location)
    THEN Json("Error", <<"The location ", location, " does not exist">>, "error")
    ELSE IF ~location.embdir
    THEN Json("Error", <<"The location ", location, " does not have any embeddings">>,
              "error")
    ELSE IF IsMinusOne(Tsne(location))
    THEN Json("Error", <<"The location ", location, " does not have any embeddings">>,
              "error")
    ELSE Json("Success", <<"Groups generated successfully">>, "success")
            @@ [coord |-> Tsne(location)]

\* POST /groups
Groups ==
    /\ pc = "idle"
    /\ \E location \in DirLocations :
         /\ req' = [route |-> "/groups", method |-> "POST", location |-> location]
         /\ resp' = GroupsResponse(location)
    /\ ran' = NoRun
    /\ UNCHANGED <<fs, pc>>
    /\ UNCHANGED agentVars

\* lines 80-87, with the result of get_life_stats
StatsOf(location, s) ==
    IF s[1] = 0 - 1 /\ s[2] = 0 - 1 /\ s[3] = 0 - 1
    THEN Json("Error", <<"The location ", location, " does not have any log files">>,
              "error")
    ELSE Json("Success", <<"Stats generated successfully">>, "success")
            @@ [mean |-> s[1], variance |-> s[2], qof |-> s[3]]

\* lines 74-87
StatsResponse(location) ==
    IF ~DirExists(location)
    THEN Json("Error", <<"The location ", location, " does not exist">>, "error")
    ELSE StatsOf(location, GetLifeStats(location))

\* POST /stats
Stats ==
    /\ pc = "idle"
    /\ \E location \in DirLocations :
         /\ req' = [route |-> "/stats", method |-> "POST", location |-> location]
         /\ resp' = StatsResponse(location)
    /\ ran' = NoRun
    /\ UNCHANGED <<fs, pc>>
    /\ UNCHANGED agentVars

----------------------------------------------------------------------------
(* Agent.__init__ *)

\* parameter sets: fc1 rows all w with bias b; fc2 row of action i all
\* (i * mul) % mod with bias 0
Seeds ==
    {[w |-> 1, b |-> 0, mul |-> 1, mod |-> 17],
     [w |-> 1, b |-> 0, mul |-> 3, mod |-> 17],
     [w |-> 1, b |-> 1, mul |-> 1, mod |-> 2],
     [w |-> 0 - 1, b |-> 1, mul |-> 3, mod |-> 5]}

MkFc1(s) ==
    [W |-> [j \in 1..HSize |-> [i \in 1..SSize |-> s.w]],
     b |-> [j \in 1..HSize |-> s.b]]

MkFc2(s, n) ==
    [W |-> [r \in 1..n |-> [j \in 1..HSize |-> ((r - 1) * s.mul) % s.mod]],
     b |-> [r \in 1..n |-> 0]]

\* orders torch.topk may leave equal values in: by index, by reverse index,
\* rotated
TieRanks(n) ==
    {[i \in 0..(n - 1) |-> i],
     [i \in 0..(n - 1) |-> n - 1 - i],
     [i \in 0..(n - 1) |-> (i + 1) % n]}

WebIdle ==
    /\ fs = NoFiles
    /\ req = None
    /\ pc = "idle"
    /\ resp = None
    /\ ran = NoRun

AgentInit ==
    /\ a_size \in ASizes
    /\ \E s \in Seeds :
         /\ fc1 = MkFc1(s)
         /\ fc2 = MkFc2(s, a_size)
    /\ tieRank \in TieRanks(a_size)
    /\ call = None
    /\ result = None
    /\ saved = None
    /\ params0 = <<fc1, fc2>>

InitAct == AgentInit /\ WebIdle

\* the agents followed over several calls: 13 actions, no bias in the first
\* layer, the two tie orders that are not by index
InitRepro ==
    /\ InitAct
    /\ a_size = RebelK
    /\ fc1.b[1] = 0
    /\ tieRank[0] # 0

NextAct == Act \/ Discard

SpecAct == InitAct /\ [][NextAct]_vars

NextRepro == ActTracked \/ Discard

SpecRepro == InitRepro /\ [][NextRepro]_vars

\* the web service beside one agent that is not called
InitWeb ==
    /\ InitAct
    /\ a_size = SmallASize
    /\ fc1.b[1] = 1 /\ fc1.W[1][1] = 1
    /\ tieRank[0] = 0

NextWeb ==
    \/ IndexGet
    \/ IndexPost
    \/ IndexWriteParams
    \/ IndexWriteVisualizer
    \/ IndexRun
    \/ IndexRemove
    \/ Groups
    \/ Stats

SpecWeb == InitWeb /\ [][NextWeb]_vars

----------------------------------------------------------------------------
(* Properties of Agent.act *)

Called == call.kind = "act"
Returned == Called /\ result.kind = "ok"
Raised == Called /\ result.kind = "raise"
Actions == 0..(a_size - 1)
Elems(q) == {q[j] : j \in 1..Len(q)}

\* q lists n distinct actions, largest probability first, and no action left
\* out has a strictly larger probability than one in q
IsTop(q, n, probs) ==
    /\ Len(q) = n
    /\ Cardinality(Elems(q)) = n
    /\ \A j \in 1..(n - 1) : ~Less(probs[q[j]], probs[q[j + 1]])
    /\ \A u \in DOMAIN probs \ Elems(q) :
         \A j \in 1..n : ~Less(probs[q[j]], probs[u])

\* C1: a rebel call with a_size >= 13 returns the 13 highest-probability
\* actions, distinct, in descending order of probability, and designates the
\* 13th (last) of them, whatever topk is.
C1_RebelTop13 ==
    (Called /\ call.is_rebel /\ a_size >= RebelK) =>
        /\ result.kind = "ok"
        /\ IsTop(result.action, RebelK, call.probs)
        /\ result.chosen = result.action[RebelK]

\* a rebel call over more than 13 actions returned, and its designated action
\* is less probable than the first of the ranking
C1_Witness ==
    /\ Returned /\ call.is_rebel /\ a_size > RebelK
    /\ Less(call.probs[result.chosen], call.probs[result.action[1]])

\* C2: a call with is_rebel false and 1 < topk <= a_size returns the topk
\* highest-probability actions, distinct, in descending order, and designates
\* the first, an action of maximal probability.
C2_TopK ==
    (Called /\ ~call.is_rebel /\ call.topk > 1 /\ call.topk <= a_size) =>
        /\ result.kind = "ok"
        /\ IsTop(result.action, call.topk, call.probs)
        /\ result.chosen = result.action[1]
        /\ \A i \in Actions : ~Less(call.probs[result.chosen], call.probs[i])

\* a top-k call with 1 < topk < a_size returned over a distribution that is
\* not uniform
C2_Witness ==
    /\ Returned /\ ~call.is_rebel /\ call.topk > 1 /\ call.topk < a_size
    /\ \E i \in Actions : Less(call.probs[i], call.probs[result.chosen])

\* C3 (as claimed): in every mode the j-th log-probability returned is the
\* natural log of the call's distribution at the j-th action returned, and
\* the two lists have the same length.
C3_LogProbOfDistribution ==
    Returned =>
        /\ Len(result.log_probs) = Len(result.action)
        /\ \A j \in 1..Len(result.action) :
             result.log_probs[j] = Ln(call.probs[result.action[j]])

C5_IndexInRange ==
    Returned =>
        /\ \A j \in 1..Len(result.action) : result.action[j] \in Actions
        /\ result.chosen \in Actions
        /\ result.chosen \in Elems(result.action)

\* a call returned the last action, a_size - 1
C5_Witness ==
    /\ Returned
    /\ (a_size - 1) \in Elems(result.action)

\* C6 (as claimed): in top-k and rebel mode, of two actions of equal
\* probability the lower index is ranked first, and when a tie straddles the
\* cut-off the lower index is the one selected.
C6_LowerIndexFirst ==
    (Returned /\ (call.is_rebel \/ call.topk > 1)) =>
        /\ \A j \in 1..(Len(result.action) - 1) :
             Eq(call.probs[result.action[j]], call.probs[result.action[j + 1]])
                => result.action[j] < result.action[j + 1]
        /\ \A u \in Actions \ Elems(result.action) :
             \A j \in 1..Len(result.action) :
                Eq(call.probs[result.action[j]], call.probs[u])
                    => result.action[j] < u

\* C7: a call with is_rebel false and topk <= 1 returns one drawn index as
\* the action list and as the designated action, with one log-probability,
\* and the index drawn has nonzero probability.
C7_OneDraw ==
    (Called /\ ~call.is_rebel /\ call.topk <= 1) =>
        /\ result.kind = "ok"
        /\ Len(result.action) = 1
        /\ result.action[1] = result.chosen
        /\ result.chosen \in Actions
        /\ Len(result.log_probs) = 1
        /\ call.probs[result.chosen][1] > 0

\* a stochastic call with topk <= 0 returned over a distribution in which
\* some action has probability 0
C7_Witness ==
    /\ Returned /\ ~call.is_rebel /\ call.topk < 1
    /\ \E i \in Actions : call.probs[i][1] = 0

SameInput(c, d) == c.state = d.state /\ c.topk = d.topk /\ c.is_rebel = d.is_rebel

----------------------------------------------------------------------------
(* Properties of the vitaboard handlers *)

\* what /groups has no data for: the path is missing, it has no Embeddings
\* sub-directory, or tsne finds no embeddings
GroupsNoData(d) == ~d.exists \/ ~d.embdir \/ d.embeddings = 0

\* what /stats has no data for: the path is missing or holds no log files
StatsNoData(d) == ~d.exists \/ d.logs = 0

\* C9: a POST to /groups or /stats for a location that is missing or holds
\* none of the data the handler reads is answered by an "Error" JSON
\* response; every such request is answered by a JSON response, and by
\* "Success" only when the location exists and the collaborator returned data.
C9_NoDataIsError ==
    /\ (req # None /\ req.route = "/groups") =>
            /\ resp.kind = "json"
            /\ resp.title \in {"Error", "Success"}
            /\ GroupsNoData(req.location) => resp.title = "Error"
            /\ resp.title = "Success" =>
                    /\ req.location.exists
                    /\ resp.coord.py = "list"
                    /\ Len(resp.coord.v) = req.location.embeddings
    /\ (req # None /\ req.route = "/stats") =>
            /\ resp.kind = "json"
            /\ resp.title \in {"Error", "Success"}
            /\ StatsNoData(req.location) => resp.title = "Error"
            /\ resp.title = "Success" =>
                    /\ req.location.exists
                    /\ resp.mean = req.location.logs

\* /groups answered "Error" for a location whose Embeddings sub-directory is
\* empty
C9_Witness ==
    /\ req # None /\ req.route = "/groups"
    /\ req.location.embdir /\ req.location.embeddings = 0
    /\ resp.title = "Error"

IndexPosted == req # None /\ req.route = "/" /\ req.method = "POST"

Runnable(file_location) ==
    file_location \in Existing /\ Contains(DotNpy, file_location)

\* C10: with one request handled at a time, a POST / for a location that
\* does not exist or does not contain ".npy" is answered "Error" with no file
\* written and no visualizer run; any other writes pass_params.txt (location,
\* then speed) and visualizer.py, then runs the visualizer, then removes both
\* and answers "Success"; after every completed request neither file exists.
C10_TempFiles ==
    /\ pc = "idle" => fs = NoFiles
    /\ (IndexPosted /\ ~Runnable(req.file_location)) =>
            /\ pc = "idle"
            /\ resp.title = "Error"
            /\ ran = NoRun
    /\ (IndexPosted /\ Runnable(req.file_location) /\ pc = "idle") =>
            /\ resp.title = "Success"
            /\ ran.log = <<"write pass_params.txt", "write visualizer.py", "run",
                           "remove pass_params.txt", "remove visualizer.py">>
            /\ ran.saw = [script |-> File(<<VisualizerContents>>),
                          params |-> File(<<req.file_location, req.speed>>)]

\* a POST / ran the visualizer and was answered "Success"
C10_Witness ==
    /\ IndexPosted /\ pc = "idle"
    /\ resp.title = "Success"
    /\ ran.saw # None

====
